---- MODULE Spec2Model ----
(***************************************************************************)
(* A model of the SwellForm client (src/src/index.ts): the form instance   *)
(* with its values, error bag, field definitions and processing flag, the  *)
(* setters, and the three network methods.  A network method is an async   *)
(* function: it runs synchronously up to the transport call (the Start     *)
(* action) and resumes when the transport settles (the End action).        *)
(***************************************************************************)
EXTENDS Integers, Sequences, FiniteSets, TLC

(***************************************************************************)
(* JavaScript values, tagged by their kind.  An object is the sequence of  *)
(* its own enumerable entries, in key order.                               *)
(***************************************************************************)
JUndef == [t |-> "undefined"]
JNull == [t |-> "null"]
JBool(b) == [t |-> "boolean", b |-> b]
JNum(n) == [t |-> "number", n |-> n]
JStr(s) == [t |-> "string", s |-> s]
JArr(items) == [t |-> "array", items |-> items]
JDate(iso) == [t |-> "date", iso |-> iso]
JObj(entries) == [t |-> "object", entries |-> entries]
Entry(k, v) == [k |-> k, v |-> v]

\* obj?.key : the own property `key` of an object, undefined for anything else
Get(obj, key) ==
    IF obj.t = "object" /\ \E i \in 1..Len(obj.entries) : obj.entries[i].k = key
    THEN LET i == CHOOSE j \in 1..Len(obj.entries) : obj.entries[j].k = key
         IN obj.entries[i].v
    ELSE JUndef

\* JavaScript truthiness
Truthy(v) ==
    CASE v.t = "undefined" -> FALSE
      [] v.t = "null" -> FALSE
      [] v.t = "boolean" -> v.b
      [] v.t = "number" -> v.n # 0
      [] v.t = "string" -> v.s # ""
      [] OTHER -> TRUE

\* typeof v === 'object'
TypeofObject(v) == v.t \in {"null", "array", "object", "date"}

\* Object.entries(v) of an object or an array (index keys "0", "1", ...)
ObjectEntries(v) ==
    CASE v.t = "object" -> v.entries
      [] v.t = "array" -> [i \in 1..Len(v.items) |-> Entry(ToString(i - 1), v.items[i])]
      [] OTHER -> <<>>

(***************************************************************************)
(* Keys and messages of the model.  Strings are atoms for TLC, so the two  *)
(* string operations of normalizeErrors are tabulated over the keys used.  *)
(***************************************************************************)
Fields == {"email", "name"}
RequiredMessage == "This field is required."

\* key.startsWith('fields.')
StartsWithFieldsDot(key) == key \in {"fields.email", "fields.name", "fields.toString"}
\* key.slice(7)
Slice7(key) ==
    CASE key = "fields.email" -> "email"
      [] key = "fields.name" -> "name"
      [] key = "fields.toString" -> "toString"
      [] OTHER -> key

\* key.startsWith('fields.') ? key.slice(7) : key (line 104)
FieldIdOf(key) == IF StartsWithFieldsDot(key) THEN Slice7(key) ELSE key

\* the keys used that every object literal inherits from Object.prototype:
\* bag[key] of the fresh bag {} (line 99) is then a function, not undefined
InheritedKeys == {"constructor", "toString"}

EmptyBag == [k \in {} |-> <<>>]

\* The key whose assignment on an object literal creates no own property:
\* out['__proto__'] = pv (line 93) runs the setter inherited from
\* Object.prototype, which sets or ignores the prototype of `out`.
ProtoKey == "__proto__"

\* out[k] = pv on the literal `out` (line 93): whether `out` gains the own key k
AssignCreatesKey(k) == k # ProtoKey

\* toPlain (lines 79-96)
RECURSIVE toPlain(_)
toPlain(input) ==
    CASE input.t \in {"undefined", "null", "boolean", "number", "string"} -> input
      [] input.t = "array" ->
            JArr([i \in 1..Len(input.items) |-> toPlain(input.items[i])])
      [] input.t = "date" -> JStr(input.iso)
      [] OTHER ->
            IF Len(input.entries) = 1 /\ input.entries[1].k = "value"
            THEN toPlain(input.entries[1].v)
            ELSE LET conv == [i \in 1..Len(input.entries) |->
                                Entry(input.entries[i].k, toPlain(input.entries[i].v))]
                 IN JObj(SelectSeq(conv,
                            LAMBDA e : e.v # JUndef /\ AssignCreatesKey(e.k)))

\* the strings of an array value, in order; nothing for a non-array (line 103)
RECURSIVE StringsOf(_)
StringsOf(items) ==
    IF items = <<>> THEN <<>>
    ELSE IF Head(items).t = "string"
         THEN <<Head(items).s>> \o StringsOf(Tail(items))
         ELSE StringsOf(Tail(items))

MessagesOf(val) == IF val.t = "array" THEN StringsOf(val.items) ELSE <<>>

\* the loop of normalizeErrors over the source's entries (lines 102-107)
RECURSIVE NormalizeLoop(_, _)
NormalizeLoop(entries, bag) ==
    IF entries = <<>> THEN bag
    ELSE LET key == Head(entries).k
             arr == MessagesOf(Head(entries).v)
             fieldId == FieldIdOf(key)
             old == IF fieldId \in DOMAIN bag THEN bag[fieldId] ELSE <<>>
         IN NormalizeLoop(Tail(entries),
                [k \in DOMAIN bag \cup {fieldId} |->
                    IF k = fieldId THEN old \o arr ELSE bag[k]])

\* the source normalizeErrors reads (line 100)
SourceOf(raw) ==
    LET nested == Get(raw, "errors")
    IN IF Truthy(nested) /\ TypeofObject(nested) THEN nested ELSE raw

\* whether normalizeErrors raises a TypeError: for an inherited key
\* !bag[fieldId] is false (line 105), no list is created, and bag[fieldId].push
\* (line 106) is not a function
normalizeErrorsThrows(raw) ==
    LET source == SourceOf(raw)
        entries == ObjectEntries(source)
    IN /\ Truthy(source) /\ TypeofObject(source)
       /\ \E i \in 1..Len(entries) : FieldIdOf(entries[i].k) \in InheritedKeys

\* normalizeErrors (lines 98-109), the bag it returns when it does not throw
normalizeErrors(raw) ==
    LET source == SourceOf(raw)
    IN IF ~Truthy(source) \/ ~TypeofObject(source) THEN EmptyBag
       ELSE NormalizeLoop(ObjectEntries(source), EmptyBag)


(***************************************************************************)
(* Local validation (validateLocally, lines 357-373).                      *)
(***************************************************************************)
\* opts?.only of validate: not given, or a list of field names
NoOnly == [given |-> FALSE, names |-> <<>>]
Only(names) == [given |-> TRUE, names |-> names]

\* this.values[name]; a key that was never set reads as undefined
ValueOf(vals, name) == IF name \in DOMAIN vals THEN vals[name] ELSE JUndef

\* a slip in line 366: the empty array is not counted as empty
isEmptyNoArray(value) ==
    \/ value.t = "null"
    \/ value.t = "undefined"
    \/ value = JStr("")

\* the emptiness test of line 366
isEmpty(value) ==
    \/ value.t = "null"
    \/ value.t = "undefined"
    \/ value = JStr("")
    \/ (value.t = "array" /\ Len(value.items) = 0)

\* field.name used as a property key
NameKey(def) ==
    LET n == Get(def, "name") IN IF n.t = "string" THEN n.s ELSE "undefined"

\* only.includes(def.name)
Includes(names, def) ==
    LET n == Get(def, "name")
    IN n.t = "string" /\ \E i \in 1..Len(names) : names[i] = n.s

\* lines 359-361: the definitions the loop visits.  The characters of a string
\* have neither name nor required, so a string iterates like an empty list.
fieldsToValidate(only, defs) ==
    LET all == IF defs.t = "array" THEN defs.items ELSE <<>>
    IN IF only.given THEN SelectSeq(all, LAMBDA d : Includes(only.names, d)) ELSE all

\* whether lines 359-364 raise a TypeError: definitions without .filter (only
\* given), definitions that cannot be iterated, or a null/undefined element
LocalThrows(only, defs) ==
    \/ only.given /\ defs.t # "array"
    \/ ~only.given /\ defs.t \notin {"array", "string"}
    \/ defs.t = "array" /\ \E i \in 1..Len(defs.items) :
                              defs.items[i].t \in {"null", "undefined"}

validateLocally(only, defs, vals) ==
    IF LocalThrows(only, defs) THEN [threw |-> TRUE, errors |-> EmptyBag]
    ELSE LET visit == fieldsToValidate(only, defs)
             bad == {i \in 1..Len(visit) :
                        /\ Truthy(Get(visit[i], "required"))
                        /\ isEmpty(ValueOf(vals, NameKey(visit[i])))}
         IN [threw |-> FALSE,
             errors |-> [k \in {NameKey(visit[i]) : i \in bad} |-> <<RequiredMessage>>]]

(***************************************************************************)
(* The transport and fetchJSON (lines 111-137).                            *)
(***************************************************************************)
SwellformsError(status, code) ==
    [name |-> "SwellformsError", status |-> status, code |-> code]
TypeError == [name |-> "TypeError"]

Return(value) == [kind |-> "return", value |-> value]
Throw(error) == [kind |-> "throw", error |-> error]

\* what the transport delivers: a response, an AbortError or another rejection
Response(status, text) == [kind |-> "response", status |-> status, text |-> text]
Aborted == [kind |-> "abort"]
Rejected == [kind |-> "reject"]

EmptyText == [t |-> "empty"]
InvalidText == [t |-> "invalid"]
JsonText(v) == [t |-> "json", v |-> v]

\* lines 122-129: empty or unparsable text gives undefined
ParseBody(text) == IF text.t = "json" THEN text.v ELSE JUndef

\* res.ok
ResOk(status) == status >= 200 /\ status <= 299

fetchJSON(resp) ==
    CASE resp.kind = "abort" -> Throw(SwellformsError(0, "TIMEOUT"))
      [] resp.kind = "reject" -> Throw(SwellformsError(0, "NETWORK"))
      [] OTHER -> Return([status |-> resp.status, json |-> ParseBody(resp.text)])


(***************************************************************************)
(* What each network method does once fetchJSON has settled: the new       *)
(* instance state and how the call ends.                                   *)
(***************************************************************************)
\* a slip in line 284: res.ok tested where status === 200 is meant
validateRemoteAnyOk(errs, r) ==
    IF r.kind = "throw" THEN [errors |-> errs, outcome |-> r]
    ELSE LET status == r.value.status
             json == r.value.json
         IN IF ResOk(status) /\ Get(json, "valid") = JBool(TRUE)
            THEN [errors |-> EmptyBag, outcome |-> Return([valid |-> TRUE])]
            ELSE IF status = 422
            THEN IF normalizeErrorsThrows(json)
                 THEN [errors |-> errs, outcome |-> Throw(TypeError)]
                 ELSE LET bag == normalizeErrors(json)
                      IN [errors |-> bag,
                          outcome |-> Return([valid |-> FALSE, errors |-> bag])]
            ELSE [errors |-> errs,
                  outcome |-> Throw(SwellformsError(status, "UNEXPECTED"))]

\* a slip in lines 284-294: the bag is cleared before the status is looked at
validateRemoteClearsFirst(errs, r) ==
    IF r.kind = "throw" THEN [errors |-> errs, outcome |-> r]
    ELSE LET status == r.value.status
             json == r.value.json
         IN IF status = 200 /\ Get(json, "valid") = JBool(TRUE)
            THEN [errors |-> EmptyBag, outcome |-> Return([valid |-> TRUE])]
            ELSE IF status = 422
            THEN IF normalizeErrorsThrows(json)
                 THEN [errors |-> errs, outcome |-> Throw(TypeError)]
                 ELSE LET bag == normalizeErrors(json)
                      IN [errors |-> bag,
                          outcome |-> Return([valid |-> FALSE, errors |-> bag])]
            ELSE [errors |-> EmptyBag,
                  outcome |-> Throw(SwellformsError(status, "UNEXPECTED"))]

\* validate, lines 284-294
validateRemote(errs, r) ==
    IF r.kind = "throw" THEN [errors |-> errs, outcome |-> r]
    ELSE LET status == r.value.status
             json == r.value.json
         IN IF status = 200 /\ Get(json, "valid") = JBool(TRUE)
            THEN [errors |-> EmptyBag, outcome |-> Return([valid |-> TRUE])]
            ELSE IF status = 422
            THEN IF normalizeErrorsThrows(json)
                 THEN [errors |-> errs, outcome |-> Throw(TypeError)]
                 ELSE LET bag == normalizeErrors(json)
                      IN [errors |-> bag,
                          outcome |-> Return([valid |-> FALSE, errors |-> bag])]
            ELSE [errors |-> errs,
                  outcome |-> Throw(SwellformsError(status, "UNEXPECTED"))]

\* a slip in line 344: > 500 where >= 500 is meant
submitErrorCodeOffByOne(status) ==
    IF status = 429 THEN "RATE_LIMITED"
    ELSE IF status = 409 THEN "CONFLICT"
    ELSE IF status > 500 THEN "SERVER"
    ELSE "UNEXPECTED"

\* submit, lines 342-345
submitErrorCode(status) ==
    IF status = 429 THEN "RATE_LIMITED"
    ELSE IF status = 409 THEN "CONFLICT"
    ELSE IF status >= 500 THEN "SERVER"
    ELSE "UNEXPECTED"

\* a slip in lines 334-335: the normalized bag is merged into the bag in place
\* instead of replacing it
submitRemoteMerges(errs, r) ==
    IF r.kind = "throw" THEN [errors |-> errs, outcome |-> r]
    ELSE LET status == r.value.status
             json == r.value.json
         IN IF status = 422
            THEN IF normalizeErrorsThrows(json)
                 THEN [errors |-> errs, outcome |-> Throw(TypeError)]
                 ELSE LET new == normalizeErrors(json)
                          bag == [f \in DOMAIN errs \cup DOMAIN new |->
                                     IF f \in DOMAIN new THEN new[f] ELSE errs[f]]
                      IN [errors |-> bag,
                          outcome |-> Return([ok |-> FALSE, status |-> 422,
                                              errors |-> bag, data |-> json])]
            ELSE IF ResOk(status)
            THEN [errors |-> EmptyBag,
                  outcome |-> Return([ok |-> TRUE, status |-> status, data |-> json])]
            ELSE [errors |-> errs,
                  outcome |-> Throw(SwellformsError(status, submitErrorCode(status)))]

\* submit, lines 332-345
submitRemote(errs, r) ==
    IF r.kind = "throw" THEN [errors |-> errs, outcome |-> r]
    ELSE LET status == r.value.status
             json == r.value.json
         IN IF status = 422
            THEN IF normalizeErrorsThrows(json)
                 THEN [errors |-> errs, outcome |-> Throw(TypeError)]
                 ELSE LET bag == normalizeErrors(json)
                      IN [errors |-> bag,
                          outcome |-> Return([ok |-> FALSE, status |-> 422,
                                              errors |-> bag, data |-> json])]
            ELSE IF ResOk(status)
            THEN [errors |-> EmptyBag,
                  outcome |-> Return([ok |-> TRUE, status |-> status, data |-> json])]
            ELSE [errors |-> errs,
                  outcome |-> Throw(SwellformsError(status, submitErrorCode(status)))]

\* a slip in line 180: 403 is left out of the UNAUTHORIZED test
fetchFieldsErrorCodeNo403(status) ==
    IF status = 404 THEN "NOT_FOUND"
    ELSE IF status = 401 THEN "UNAUTHORIZED"
    ELSE "UNEXPECTED"

\* fetchFields, lines 178-182
fetchFieldsErrorCode(status) ==
    IF status = 404 THEN "NOT_FOUND"
    ELSE IF status = 401 \/ status = 403 THEN "UNAUTHORIZED"
    ELSE "UNEXPECTED"

\* fetchFields, lines 178-187
fetchFieldsRemote(defs, fetched, r) ==
    IF r.kind = "throw"
    THEN [definitions |-> defs, hasFetchedDefs |-> fetched, outcome |-> r]
    ELSE LET status == r.value.status
             json == r.value.json
         IN IF ~ResOk(status)
            THEN [definitions |-> defs, hasFetchedDefs |-> fetched,
                  outcome |-> Throw(SwellformsError(status, fetchFieldsErrorCode(status)))]
            ELSE LET inner == Get(json, "fields")
                     fields == IF json.t = "array" THEN json
                               ELSE IF inner.t \in {"null", "undefined"}
                                    THEN JArr(<<>>) ELSE inner
                 IN [definitions |-> fields, hasFetchedDefs |-> TRUE,
                     outcome |-> Return(fields)]

\* a slip in lines 295-297: the flag is reset after the try block, not in a
\* finally, so a call that throws leaves it set
releaseOnReturnOnly(outcome) == outcome.kind = "throw"

\* the finally blocks of validate and submit (lines 295-297, 346-348)
releaseProcessing(outcome) == FALSE

\* a slip in lines 202-204: the error entry is kept
setFieldKeepsError(errs, id) == errs


\* setField's effect on the error bag (lines 202-204); an array is truthy
\* even when it is empty
setFieldErrors(errs, id) ==
    IF id \in DOMAIN errs THEN [k \in DOMAIN errs \ {id} |-> errs[k]] ELSE errs

\* setFields written as repeated setField: the assigned fields lose their errors
setFieldsClearsErrors(errs, map) ==
    [k \in DOMAIN errs \ DOMAIN map |-> errs[k]]

\* setFields' effect on the error bag (lines 207-209): none
setFieldsErrors(errs, map) == errs

\* Object.assign(target, map) and the spread { ...target, ...map }
Assign(target, map) ==
    [f \in DOMAIN target \cup DOMAIN map |->
        IF f \in DOMAIN map THEN map[f] ELSE target[f]]

\* a record of field values as a JavaScript object
RECURSIVE EntriesOf(_, _)
EntriesOf(vals, keys) ==
    IF keys = {} THEN <<>>
    ELSE LET k == CHOOSE x \in keys : TRUE
         IN <<Entry(k, vals[k])>> \o EntriesOf(vals, keys \ {k})
AsObject(vals) == JObj(EntriesOf(vals, DOMAIN vals))

\* withMeta (lines 375-379) where there is no window
withMeta(entries) ==
    JObj(entries \o <<Entry("originUrl", JStr("")), Entry("fullUrl", JStr(""))>>)

FormId == "form-1"

\* the body validate posts (lines 268-272)
validateBody(vals, only) ==
    withMeta(<<Entry("formId", JStr(FormId)), Entry("fields", toPlain(AsObject(vals)))>>
             \o (IF only.given /\ Len(only.names) > 0
                 THEN <<Entry("only", JArr([i \in 1..Len(only.names) |-> JStr(only.names[i])]))>>
                 ELSE <<>>))

\* a slip in line 316: the spreads are swapped, so the stored values win
submitBodyValuesWin(vals, overrides) ==
    withMeta(<<Entry("formId", JStr(FormId)),
               Entry("fields", toPlain(AsObject(Assign(overrides, vals))))>>)

\* the body submit posts (lines 316-320)
submitBody(vals, overrides) ==
    withMeta(<<Entry("formId", JStr(FormId)),
               Entry("fields", toPlain(AsObject(Assign(vals, overrides))))>>)


(***************************************************************************)
(* The inputs the environment chooses from.                                *)
(***************************************************************************)
\* how many network calls may be in flight on the instance at once
MaxInFlight == 2

ValueSet == {JUndef, JNull, JStr(""), JArr(<<>>), JStr("a")}

\* the values setField is given: every kind of empty value for one field,
\* absent or filled for the other
FieldValues(id) == IF id = "email" THEN ValueSet ELSE {JUndef, JStr("a")}

\* the maps given to the constructor, to setFields and to submit's overrides
FieldMaps ==
    { [f \in {} |-> JUndef],
      [f \in {"email"} |-> JStr("a")],
      [f \in {"email", "name"} |-> IF f = "email" THEN JStr("") ELSE JStr("a")] }

OnlyOptions == {NoOnly, Only(<<>>), Only(<<"email">>), Only(<<"name">>)}

FieldDef(name, required) ==
    JObj(<<Entry("id", JStr(name)), Entry("name", JStr(name)),
           Entry("type", JStr("text")), Entry("required", JBool(required))>>)

\* parsed response bodies
BodyValid == JObj(<<Entry("valid", JBool(TRUE))>>)
BodyInvalid == JObj(<<Entry("valid", JBool(FALSE))>>)
BodyErrors ==
    JObj(<<Entry("message", JStr("Invalid")),
           Entry("errors", JObj(<<Entry("fields.email", JArr(<<JNum(1), JStr("bad")>>)),
                                  Entry("email", JArr(<<JStr("taken")>>))>>))>>)
BodyErrorsNoList == JObj(<<Entry("errors", JObj(<<Entry("name", JStr("required"))>>))>>)
BodyErrorsInherited ==
    JObj(<<Entry("errors", JObj(<<Entry("constructor", JArr(<<JStr("bad")>>))>>))>>)
BodyDefsArray == JArr(<<FieldDef("email", TRUE), FieldDef("name", FALSE)>>)
BodyDefsObject ==
    JObj(<<Entry("fields", JArr(<<FieldDef("email", TRUE), FieldDef("name", TRUE)>>))>>)
BodyDefsNoArray == JObj(<<Entry("fields", JObj(<<>>))>>)

BodyCreated == JObj(<<Entry("id", JNum(1))>>)

\* the two ways the transport fails
Failures == {Aborted, Rejected}

\* What the transport may answer to each method: every status the method
\* tells apart and some it does not, with an empty body; the statuses whose
\* body the method reads, with the bodies that matter to it.
ValidateResponses ==
    {Response(st, EmptyText) : st \in {200, 201, 404, 422, 500}}
    \cup {Response(200, JsonText(b)) : b \in {BodyValid, BodyInvalid}}
    \cup {Response(422, JsonText(b)) :
            b \in {BodyErrors, BodyErrorsNoList, BodyErrorsInherited}}
    \cup {Response(201, JsonText(BodyValid)), Response(200, InvalidText)}
    \cup Failures

SubmitResponses ==
    {Response(st, EmptyText) : st \in {200, 201, 404, 409, 422, 429, 500, 503}}
    \cup {Response(422, JsonText(b)) :
            b \in {BodyErrors, BodyErrorsNoList, BodyErrorsInherited}}
    \cup {Response(201, JsonText(BodyCreated))}
    \cup Failures

FetchFieldsResponses ==
    {Response(st, EmptyText) : st \in {200, 401, 403, 404, 500}}
    \cup {Response(200, JsonText(b)) :
            b \in {BodyDefsArray, BodyDefsObject, BodyDefsNoArray, BodyValid}}
    \cup {Response(200, InvalidText)}
    \cup Failures

Ops == {"validate", "submit", "fetchFields"}

(***************************************************************************)
(* The instance (lines 145-150), the calls in flight and the outcome of    *)
(* the latest operation.                                                   *)
(***************************************************************************)
VARIABLES
    values,          \* this.values
    errors,          \* this.errors
    definitions,     \* this.definitions
    hasFetchedDefs,  \* this.hasFetchedDefs
    processing,      \* this.processing
    inflight,        \* per method, the calls waiting for the transport
    abortable,       \* typeof AbortController !== 'undefined' (line 118)
    aborted,         \* per method, the calls in flight whose timer has fired
    held,            \* what the caller holds from getFields() or getFormErrors()
    last             \* the latest operation and how it ended

vars == <<values, errors, definitions, hasFetchedDefs, processing, inflight,
          abortable, aborted, held, last>>

\* the caller holds nothing
NoHeld == [of |-> "nothing"]

InFlight == inflight["validate"] + inflight["submit"] + inflight["fetchFields"]

\* the state getters (lines 221-248)
isProcessing == processing
hasError(fieldId) == fieldId \in DOMAIN errors /\ Len(errors[fieldId]) > 0
isValid == DOMAIN errors = {}
hasFormErrors == DOMAIN errors # {}
getFormErrors == errors
getField(id) == ValueOf(values, id)
getFields == values
getFieldError(fieldId) ==
    IF hasError(fieldId) THEN JStr(errors[fieldId][1]) ELSE JUndef

\* constructor (lines 158-161), in a runtime that has AbortController
Init ==
    /\ \E initialValues \in FieldMaps :
          values = [f \in Fields |-> ValueOf(initialValues, f)]
    /\ errors = EmptyBag
    /\ definitions = JArr(<<>>)
    /\ hasFetchedDefs = FALSE
    /\ processing = FALSE
    /\ inflight = [op \in Ops |-> 0]
    /\ abortable = TRUE
    /\ aborted = [op \in Ops |-> 0]
    /\ held = NoHeld
    /\ last = [op |-> "constructor"]

\* setField (lines 200-205)
SetField(id, value) ==
    /\ values' = [values EXCEPT ![id] = value]
    /\ errors' = setFieldErrors(errors, id)
    /\ last' = [op |-> "setField", id |-> id]
    /\ UNCHANGED <<definitions, hasFetchedDefs, processing, inflight, abortable, aborted, held>>

\* setFields (lines 207-209)
SetFields(map) ==
    /\ values' = Assign(values, map)
    /\ errors' = setFieldsErrors(errors, map)
    /\ last' = [op |-> "setFields"]
    /\ UNCHANGED <<definitions, hasFetchedDefs, processing, inflight, abortable, aborted, held>>

\* the timer of one call in flight fires and aborts the call's signal
\* (line 119); there is a timer only where there is an AbortController
TimerFires(op) ==
    /\ abortable
    /\ inflight[op] > aborted[op]
    /\ aborted' = [aborted EXCEPT ![op] = @ + 1]
    /\ UNCHANGED <<values, errors, definitions, hasFetchedDefs, processing,
                   inflight, abortable, held, last>>

\* fetchJSON's finally (line 135) for the call that settles: one whose signal
\* was aborted, or one whose timer is pending or that has none
TimerCleared(op) ==
    \/ aborted[op] > 0 /\ aborted' = [aborted EXCEPT ![op] = @ - 1]
    \/ inflight[op] > aborted[op] /\ aborted' = aborted

\* fetchFields up to the transport call (lines 171-176)
FetchFieldsStart ==
    /\ InFlight < MaxInFlight
    /\ inflight' = [inflight EXCEPT !["fetchFields"] = @ + 1]
    /\ last' = [op |-> "fetchFields", outcome |-> [kind |-> "pending"]]
    /\ UNCHANGED <<values, errors, definitions, hasFetchedDefs, processing,
                   abortable, aborted, held>>

\* fetchFields from the transport's answer on (lines 172-187)
FetchFieldsEnd(resp) ==
    /\ inflight["fetchFields"] > 0
    /\ LET after == fetchFieldsRemote(definitions, hasFetchedDefs, fetchJSON(resp))
       IN /\ definitions' = after.definitions
          /\ hasFetchedDefs' = after.hasFetchedDefs
          /\ last' = [op |-> "fetchFields", outcome |-> after.outcome]
    /\ inflight' = [inflight EXCEPT !["fetchFields"] = @ - 1]
    /\ TimerCleared("fetchFields")
    /\ UNCHANGED <<values, errors, processing, abortable, held>>

\* validate up to the transport call (lines 256-282); the local pass ends the
\* call without one
ValidateStart(only) ==
    LET local == IF hasFetchedDefs THEN validateLocally(only, definitions, values)
                 ELSE [threw |-> FALSE, errors |-> EmptyBag]
    IN IF local.threw
       THEN /\ processing' = releaseProcessing(Throw(TypeError))
            /\ last' = [op |-> "validate", outcome |-> Throw(TypeError)]
            /\ UNCHANGED <<values, errors, definitions, hasFetchedDefs, inflight,
                           abortable, aborted, held>>
       ELSE IF DOMAIN local.errors # {}
       THEN /\ errors' = local.errors
            /\ processing' = releaseProcessing(Return([valid |-> FALSE]))
            /\ last' = [op |-> "validate",
                        outcome |-> Return([valid |-> FALSE, errors |-> local.errors])]
            /\ UNCHANGED <<values, definitions, hasFetchedDefs, inflight,
                           abortable, aborted, held>>
       ELSE /\ InFlight < MaxInFlight
            /\ processing' = TRUE
            /\ inflight' = [inflight EXCEPT !["validate"] = @ + 1]
            /\ last' = [op |-> "validate",
                        outcome |-> [kind |-> "pending",
                                     body |-> validateBody(values, only)]]
            /\ UNCHANGED <<values, errors, definitions, hasFetchedDefs,
                           abortable, aborted, held>>

\* validate from the transport's answer on (lines 274-297)
ValidateEnd(resp) ==
    /\ inflight["validate"] > 0
    /\ LET after == validateRemote(errors, fetchJSON(resp))
       IN /\ errors' = after.errors
          /\ processing' = releaseProcessing(after.outcome)
          /\ last' = [op |-> "validate", outcome |-> after.outcome]
    /\ inflight' = [inflight EXCEPT !["validate"] = @ - 1]
    /\ TimerCleared("validate")
    /\ UNCHANGED <<values, definitions, hasFetchedDefs, abortable, held>>

\* submit up to the transport call (lines 304-330)
SubmitStart(overrides) ==
    LET local == IF hasFetchedDefs THEN validateLocally(NoOnly, definitions, values)
                 ELSE [threw |-> FALSE, errors |-> EmptyBag]
    IN IF local.threw
       THEN /\ processing' = releaseProcessing(Throw(TypeError))
            /\ last' = [op |-> "submit", outcome |-> Throw(TypeError)]
            /\ UNCHANGED <<values, errors, definitions, hasFetchedDefs, inflight,
                           abortable, aborted, held>>
       ELSE IF DOMAIN local.errors # {}
       THEN /\ errors' = local.errors
            /\ processing' = releaseProcessing(Return([ok |-> FALSE]))
            /\ last' = [op |-> "submit",
                        outcome |-> Return([ok |-> FALSE, status |-> 422,
                                            errors |-> local.errors,
                                            data |-> JObj(<<Entry("message",
                                                        JStr("Validation failed."))>>)])]
            /\ UNCHANGED <<values, definitions, hasFetchedDefs, inflight,
                           abortable, aborted, held>>
       ELSE /\ InFlight < MaxInFlight
            /\ processing' = TRUE
            /\ inflight' = [inflight EXCEPT !["submit"] = @ + 1]
            /\ last' = [op |-> "submit",
                        outcome |-> [kind |-> "pending",
                                     body |-> submitBody(values, overrides)]]
            /\ UNCHANGED <<values, errors, definitions, hasFetchedDefs,
                           abortable, aborted, held>>

\* submit from the transport's answer on (lines 322-348)
SubmitEnd(resp) ==
    /\ inflight["submit"] > 0
    /\ LET after == submitRemote(errors, fetchJSON(resp))
       IN /\ errors' = after.errors
          /\ processing' = releaseProcessing(after.outcome)
          /\ last' = [op |-> "submit", outcome |-> after.outcome]
    /\ inflight' = [inflight EXCEPT !["submit"] = @ - 1]
    /\ TimerCleared("submit")
    /\ UNCHANGED <<values, definitions, hasFetchedDefs, abortable, held>>

\* a call of form.validateField(name): the class (lines 142-380) has no such
\* member, so the call expression throws a TypeError before anything runs
ValidateField(name) ==
    /\ last' = [op |-> "validateField", outcome |-> Throw(TypeError)]
    /\ UNCHANGED <<values, errors, definitions, hasFetchedDefs, processing,
                   inflight, abortable, aborted, held>>

\* getFields (lines 215-217): a new object holding the entries of this.values
GetFields ==
    /\ held' = [of |-> "getFields", map |-> values]
    /\ last' = [op |-> "getFields", outcome |-> Return(values)]
    /\ UNCHANGED <<values, errors, definitions, hasFetchedDefs, processing,
                   inflight, abortable, aborted>>

\* getFormErrors (lines 242-244): a new object holding the entries of
\* this.errors; the spread copies the keys, so each entry is the message
\* array of the instance itself.  `shared` are the keys of the returned
\* object that still hold the instance's array, `own` the entries the caller
\* has put there.
GetFormErrors ==
    /\ held' = [of |-> "getFormErrors", shared |-> DOMAIN errors, own |-> EmptyBag]
    /\ last' = [op |-> "getFormErrors", outcome |-> Return(errors)]
    /\ UNCHANGED <<values, errors, definitions, hasFetchedDefs, processing,
                   inflight, abortable, aborted>>

\* the message the caller writes, and how long the caller lets a list grow
CallerMessage == "x"
MaxMessages == 3

\* the caller assigns returned[k]
SetReturnedKey(k) ==
    /\ held.of # "nothing"
    /\ held' = IF held.of = "getFields"
               THEN [held EXCEPT !.map = [@ EXCEPT ![k] = JStr(CallerMessage)]]
               ELSE [held EXCEPT !.shared = @ \ {k},
                                 !.own = [f \in DOMAIN @ \cup {k} |->
                                            IF f = k THEN <<CallerMessage>> ELSE @[f]]]
    /\ UNCHANGED <<values, errors, definitions, hasFetchedDefs, processing,
                   inflight, abortable, aborted, last>>

\* the caller deletes returned[k]
DeleteReturnedKey(k) ==
    /\ held.of # "nothing"
    /\ held' = IF held.of = "getFields"
               THEN [held EXCEPT !.map = [@ EXCEPT ![k] = JUndef]]
               ELSE [held EXCEPT !.shared = @ \ {k},
                                 !.own = [f \in DOMAIN @ \ {k} |-> @[f]]]
    /\ UNCHANGED <<values, errors, definitions, hasFetchedDefs, processing,
                   inflight, abortable, aborted, last>>

\* the caller runs returned[k].push(message): the array is the instance's own
\* when the key is shared
AppendToReturnedList(k) ==
    /\ held.of = "getFormErrors"
    /\ \/ /\ k \in held.shared
          /\ Len(errors[k]) < MaxMessages
          /\ errors' = [errors EXCEPT ![k] = Append(@, CallerMessage)]
          /\ held' = held
       \/ /\ k \in DOMAIN held.own
          /\ Len(held.own[k]) < MaxMessages
          /\ held' = [held EXCEPT !.own[k] = Append(@, CallerMessage)]
          /\ errors' = errors
    /\ UNCHANGED <<values, definitions, hasFetchedDefs, processing,
                   inflight, abortable, aborted, last>>

\* the caller runs returned[k].length = 0
EmptyReturnedList(k) ==
    /\ held.of = "getFormErrors"
    /\ \/ /\ k \in held.shared
          /\ errors' = [errors EXCEPT ![k] = <<>>]
          /\ held' = held
       \/ /\ k \in DOMAIN held.own
          /\ held' = [held EXCEPT !.own[k] = <<>>]
          /\ errors' = errors
    /\ UNCHANGED <<values, definitions, hasFetchedDefs, processing,
                   inflight, abortable, aborted, last>>

\* the caller lets go of the returned object
Release ==
    /\ held.of # "nothing"
    /\ held' = NoHeld
    /\ UNCHANGED <<values, errors, definitions, hasFetchedDefs, processing,
                   inflight, abortable, aborted, last>>

Next ==
    \/ \E id \in Fields : \E value \in FieldValues(id) : SetField(id, value)
    \/ \E map \in FieldMaps : SetFields(map)
    \/ FetchFieldsStart
    \/ \E resp \in FetchFieldsResponses : FetchFieldsEnd(resp)
    \/ \E only \in OnlyOptions : ValidateStart(only)
    \/ \E resp \in ValidateResponses : ValidateEnd(resp)
    \/ \E overrides \in FieldMaps : SubmitStart(overrides)
    \/ \E resp \in SubmitResponses : SubmitEnd(resp)
    \/ \E name \in Fields : ValidateField(name)

\* The instance with a transport that settles every call before the call's
\* timer fires.  The timer acts on the instance only through the transport's
\* AbortError, which this transport may deliver at any time.
Spec == Init /\ [][Next]_vars

\* a mutation the caller performs on the returned object
CallerMutates(k) ==
    \/ SetReturnedKey(k)
    \/ DeleteReturnedKey(k)
    \/ AppendToReturnedList(k)
    \/ EmptyReturnedList(k)

GetterNext ==
    \/ /\ held = NoHeld
       /\ \/ \E id \in Fields : \E value \in FieldValues(id) : SetField(id, value)
          \/ \E only \in OnlyOptions : ValidateStart(only)
          \/ \E resp \in ValidateResponses : ValidateEnd(resp)
    \/ GetFields
    \/ GetFormErrors
    \/ \E k \in Fields : SetReturnedKey(k)
    \/ \E k \in Fields : DeleteReturnedKey(k)
    \/ \E k \in Fields : AppendToReturnedList(k)
    \/ \E k \in Fields : EmptyReturnedList(k)
    \/ Release

\* The instance with a caller that reads it through getFields() and
\* getFormErrors(), changes what it was given and lets go of it before it
\* calls the instance again.
GetterSpec == Init /\ [][GetterNext]_vars

(***************************************************************************)
(* The one-shot helpers submitForm and validateForm (lines 383-397).        *)
(***************************************************************************)
\* payload.fields: absent, or a map of some of the fields
NoFields == [given |-> FALSE]
GivenFields(map) == [given |-> TRUE, map |-> map]
PayloadFields ==
    {NoFields} \cup
    {GivenFields(m) : m \in UNION {[S -> {JStr(""), JStr("a")}] : S \in SUBSET Fields}}

\* the payloads the helpers are called with; payload.only is absent or a list
Payloads == [fields : PayloadFields, only : OnlyOptions]

\* payload.fields || {} (lines 387, 395)
FieldsOrEmpty(payload) ==
    IF payload.fields.given THEN payload.fields.map ELSE [f \in {} |-> JUndef]

\* a slip in line 396: the only list is not passed on
validateFormOptsDropped(payload) == NoOnly

\* payload.only ? {only: payload.only} : undefined (line 396); a list is
\* truthy even when it is empty
validateFormOpts(payload) ==
    IF payload.only.given THEN Only(payload.only.names) ELSE NoOnly

\* a helper was called and has constructed its instance (lines 387, 395)
OneShotInit ==
    /\ \E helper \in {"submitForm", "validateForm"} : \E payload \in Payloads :
          /\ values = [f \in Fields |-> ValueOf(FieldsOrEmpty(payload), f)]
          /\ last = [op |-> "constructor", helper |-> helper, payload |-> payload]
    /\ errors = EmptyBag
    /\ definitions = JArr(<<>>)
    /\ hasFetchedDefs = FALSE
    /\ processing = FALSE
    /\ inflight = [op \in Ops |-> 0]
    /\ abortable = TRUE
    /\ aborted = [op \in Ops |-> 0]
    /\ held = NoHeld

\* submitForm calls f.submit(undefined, fetchImpl) (line 388)
SubmitForm ==
    /\ last.op = "constructor"
    /\ last.helper = "submitForm"
    /\ SubmitStart([f \in {} |-> JUndef])

\* validateForm calls f.validate(opts, fetchImpl) (line 396)
ValidateForm ==
    /\ last.op = "constructor"
    /\ last.helper = "validateForm"
    /\ ValidateStart(validateFormOpts(last.payload))

OneShotNext ==
    \/ SubmitForm
    \/ ValidateForm
    \/ \E resp \in SubmitResponses : SubmitEnd(resp)
    \/ \E resp \in ValidateResponses : ValidateEnd(resp)

\* One call of a helper: the instance is built, the method is called once,
\* its result is the helper's result and the instance is dropped.
OneShotSpec == OneShotInit /\ [][OneShotNext]_vars

(***************************************************************************)
(* normalizeErrors (lines 98-109) applied to one parsed body.               *)
(***************************************************************************)
\* how many entries an error object of the inputs has at most
MaxEntries == 2

ErrorKeys == {"email", "fields.email", "name", "fields.toString", "constructor"}
ErrorValues ==
    {JArr(<<JStr("bad")>>), JArr(<<JNum(1), JStr("taken")>>), JStr("required"), JNull}

\* the objects with up to MaxEntries entries, each key at most once
RECURSIVE ObjectsOfSize(_)
ObjectsOfSize(n) ==
    IF n = 0 THEN {<<>>}
    ELSE {Append(es, Entry(k, v)) :
            es \in ObjectsOfSize(n - 1), k \in ErrorKeys, v \in ErrorValues}
ErrorObjects ==
    {JObj(es) : es \in {x \in UNION {ObjectsOfSize(n) : n \in 0..MaxEntries} :
                          \A i, j \in 1..Len(x) : x[i].k = x[j].k => i = j}}

\* the bodies normalizeErrors is given: what is not an object, an error object
\* as the body, under `errors`, or beside a message; an `errors` that is no
\* object; a list
RawBodies ==
    {JUndef, JNull, JStr("Invalid"), JNum(0), JBool(FALSE), JArr(<<JStr("bad")>>)}
    \cup ErrorObjects
    \cup {JObj(<<Entry("errors", o)>>) : o \in ErrorObjects}
    \cup {JObj(<<Entry("message", JStr("Invalid")), Entry("errors", o)>>) :
            o \in ErrorObjects}
    \cup {JObj(<<Entry("errors", e), Entry("email", JArr(<<JStr("bad")>>))>>) :
            e \in {JStr("Invalid"), JNull, JArr(<<JArr(<<JStr("bad")>>)>>)}}

NormalizeInit ==
    /\ \E raw \in RawBodies :
          last = [op |-> "normalizeErrors", raw |-> raw, outcome |-> [kind |-> "pending"]]
    /\ values = [f \in Fields |-> JUndef]
    /\ errors = EmptyBag
    /\ definitions = JArr(<<>>)
    /\ hasFetchedDefs = FALSE
    /\ processing = FALSE
    /\ inflight = [op \in Ops |-> 0]
    /\ abortable = TRUE
    /\ aborted = [op \in Ops |-> 0]
    /\ held = NoHeld

\* the call normalizeErrors(raw)
NormalizeErrorsCall ==
    /\ last.op = "normalizeErrors"
    /\ last.outcome.kind = "pending"
    /\ last' = [last EXCEPT !.outcome =
                   IF normalizeErrorsThrows(last.raw) THEN Throw(TypeError)
                   ELSE Return(normalizeErrors(last.raw))]
    /\ UNCHANGED <<values, errors, definitions, hasFetchedDefs, processing,
                   inflight, abortable, aborted, held>>

NormalizeNext == NormalizeErrorsCall

NormalizeSpec == NormalizeInit /\ [][NormalizeNext]_vars

(***************************************************************************)
(* toPlain (lines 79-96) applied to one value.                             *)
(***************************************************************************)
\* how many elements a list and how many entries an object of the inputs has
\* at most
MaxWidth == 2

Epoch == "1970-01-01T00:00:00.000Z"

\* what is no list and no plain object: the primitives, undefined, a Date
PlainLeaves == {JUndef, JNull, JBool(TRUE), JNum(1), JStr("a"), JDate(Epoch)}
PlainKeys == {"value", "a", ProtoKey}

\* the lists of up to n elements of a set
RECURSIVE ListsUpTo(_, _)
ListsUpTo(S, n) ==
    IF n = 0 THEN {<<>>}
    ELSE ListsUpTo(S, n - 1)
         \cup {Append(l, x) : l \in {m \in ListsUpTo(S, n - 1) : Len(m) = n - 1}, x \in S}

\* the lists and the objects (each key at most once) over a set of values
ListsOver(S) == {JArr(l) : l \in ListsUpTo(S, MaxWidth)}
ObjectsOver(S) ==
    {JObj(es) : es \in {x \in ListsUpTo({Entry(k, v) : k \in PlainKeys, v \in S}, MaxWidth) :
                          \A i, j \in 1..Len(x) : x[i].k = x[j].k => i = j}}

\* one level of nesting
Nested == PlainLeaves \cup ListsOver(PlainLeaves) \cup ObjectsOver(PlainLeaves)

\* the value of the README's serialization notes (lines 277-281): a Date, a
\* list with an undefined element, a wrapper
Example ==
    JObj(<<Entry("a", JDate(Epoch)),
           Entry("b", JArr(<<JNum(1), JUndef, JNum(2)>>)),
           Entry("c", JObj(<<Entry("value", JNum(5))>>))>>)

\* the values toPlain is given: one level of nesting, and a second level
\* inside a list, under each key and beside another key
PlainInputs ==
    Nested
    \cup {JArr(<<x>>) : x \in Nested}
    \cup {JObj(<<Entry(k, x)>>) : k \in PlainKeys, x \in Nested}
    \cup {JObj(<<Entry("value", x), Entry("a", JNull)>>) : x \in Nested}
    \cup {Example}

ToPlainInit ==
    /\ \E input \in PlainInputs :
          last = [op |-> "toPlain", input |-> input, outcome |-> [kind |-> "pending"]]
    /\ values = [f \in Fields |-> JUndef]
    /\ errors = EmptyBag
    /\ definitions = JArr(<<>>)
    /\ hasFetchedDefs = FALSE
    /\ processing = FALSE
    /\ inflight = [op \in Ops |-> 0]
    /\ abortable = TRUE
    /\ aborted = [op \in Ops |-> 0]
    /\ held = NoHeld

\* the call toPlain(input)
ToPlainCall ==
    /\ last.op = "toPlain"
    /\ last.outcome.kind = "pending"
    /\ last' = [last EXCEPT !.outcome = Return(toPlain(last.input))]
    /\ UNCHANGED <<values, errors, definitions, hasFetchedDefs, processing,
                   inflight, abortable, aborted, held>>

ToPlainNext == ToPlainCall

ToPlainSpec == ToPlainInit /\ [][ToPlainNext]_vars

\* the instance in any runtime, with or without AbortController
TimeoutInit ==
    /\ \E initialValues \in FieldMaps :
          values = [f \in Fields |-> ValueOf(initialValues, f)]
    /\ errors = EmptyBag
    /\ definitions = JArr(<<>>)
    /\ hasFetchedDefs = FALSE
    /\ processing = FALSE
    /\ inflight = [op \in Ops |-> 0]
    /\ abortable \in BOOLEAN
    /\ aborted = [op \in Ops |-> 0]
    /\ held = NoHeld
    /\ last = [op |-> "constructor"]

TimeoutNext ==
    \/ Next
    \/ \E op \in Ops : TimerFires(op)

\* a transport that honours the signal: it rejects a call whose signal was
\* aborted with an AbortError
SignalHonoured(op) ==
    /\ aborted[op] > 0
    /\ aborted' = [aborted EXCEPT ![op] = @ - 1]
    /\ CASE op = "validate" -> ValidateEnd(Aborted)
         [] op = "submit" -> SubmitEnd(Aborted)
         [] OTHER -> FetchFieldsEnd(Aborted)

\* The instance with its timers.  A timer that is set fires (the event loop
\* runs its callback) and the transport honours an aborted signal; nothing
\* makes a transport answer a call whose signal is not aborted.
TimeoutSpec ==
    /\ TimeoutInit
    /\ [][TimeoutNext]_vars
    /\ \A op \in Ops : WF_vars(TimerFires(op))
    /\ \A op \in Ops : WF_vars(SignalHonoured(op))


(***************************************************************************)
(* The claims.                                                             *)
(***************************************************************************)
\* the latest operation was a validate or submit call coming to its end
CallEnded ==
    /\ last.op \in {"validate", "submit"}
    /\ last.outcome.kind \in {"return", "throw"}

ValidateOrSubmitInFlight == inflight["validate"] + inflight["submit"]

\* C1: when a validate or submit call has ended, by returning or by throwing,
\* and no other validate or submit call is in flight, isProcessing() is false.
C1_ProcessingResetOnExit ==
    (CallEnded /\ ValidateOrSubmitInFlight = 0) => ~isProcessing

\* a submit call ended with TIMEOUT, nothing else is in flight, the flag is down
C1_Witness ==
    /\ last.op = "submit"
    /\ last.outcome.kind = "throw"
    /\ last.outcome.error = SwellformsError(0, "TIMEOUT")
    /\ ValidateOrSubmitInFlight = 0
    /\ ~isProcessing

\* C2: isProcessing() is true exactly when at least one validate or submit
\* call is in flight, overlapping calls included.
C2_ProcessingIffInFlight ==
    isProcessing <=> (ValidateOrSubmitInFlight > 0)

\* C3: every field name present in the error bag maps to a non-empty list of
\* messages.
C3_NoEmptyMessageList ==
    \A f \in DOMAIN errors : Len(errors[f]) > 0


\* the values the claims call empty
EmptyValues == {JNull, JUndef, JStr(""), JArr(<<>>)}

\* the fields among `names` with a definition that is required while the
\* field's current value is empty
RequiredEmptyAmong(names) ==
    IF definitions.t # "array" THEN {}
    ELSE {n \in names : \E i \in 1..Len(definitions.items) :
            /\ Get(definitions.items[i], "name") = JStr(n)
            /\ Get(definitions.items[i], "required") = JBool(TRUE)
            /\ values[n] \in EmptyValues}

RequiredBag(names) == [f \in names |-> <<RequiredMessage>>]

\* C4: with definitions fetched and a required definition whose value is
\* empty, submit makes no transport call, replaces the error bag by one
\* 'This field is required.' entry per such field and returns
\* {ok: false, status: 422}, whatever overrides it is given.
C4_SubmitLocalShortCircuit ==
    [][(last'.op = "submit" /\ hasFetchedDefs) => \A overrides \in FieldMaps :
        (RequiredEmptyAmong(Fields) # {} /\ SubmitStart(overrides))
        => /\ inflight' = inflight
           /\ errors' = RequiredBag(RequiredEmptyAmong(Fields))
           /\ last'.op = "submit"
           /\ last'.outcome.kind = "return"
           /\ last'.outcome.value.ok = FALSE
           /\ last'.outcome.value.status = 422]_vars

\* submit ended in the local pass on a required field holding an empty array
C4_Witness ==
    /\ hasFetchedDefs
    /\ last.op = "submit"
    /\ last.outcome.kind = "return"
    /\ last.outcome.value.ok = FALSE
    /\ last.outcome.value.status = 422
    /\ values["email"] = JArr(<<>>)
    /\ errors = RequiredBag({"email"})
    /\ InFlight = 0

\* the fields an `only` option names (all of them when it is absent)
NamedBy(only) ==
    IF only.given THEN {f \in Fields : \E i \in 1..Len(only.names) : only.names[i] = f}
    ELSE Fields

\* C5: with definitions fetched, validate({only}) checks the definitions named
\* in only (all when only is absent): if one is required and empty, it makes
\* no transport call, replaces the error bag by the local errors and returns
\* valid: false; if none is, the transport is invoked.
C5_ValidateOnlyFilter ==
    [][(last'.op = "validate" /\ hasFetchedDefs) => \A only \in OnlyOptions :
        ValidateStart(only)
        => IF RequiredEmptyAmong(NamedBy(only)) # {}
           THEN /\ inflight' = inflight
                /\ errors' = RequiredBag(RequiredEmptyAmong(NamedBy(only)))
                /\ last' = [op |-> "validate",
                            outcome |-> Return([valid |-> FALSE, errors |-> errors'])]
           ELSE inflight' = [inflight EXCEPT !["validate"] = @ + 1]]_vars


\* the step ends a call of `op`
Ends(op) ==
    /\ last'.op = op
    /\ last'.outcome.kind \in {"return", "throw"}
    /\ inflight'[op] = inflight[op] - 1

\* C6: in the remote pass of validate, HTTP 200 with a body valid: true
\* empties the error bag and returns valid: true; HTTP 422 sets the error bag
\* to normalizeErrors(body) and returns valid: false with that bag; every
\* status other than 200 and 422 throws UNEXPECTED carrying that status.
C6_ValidateRemoteOutcome ==
    [][Ends("validate") => \A resp \in ValidateResponses :
        (resp.kind = "response" /\ ValidateEnd(resp))
        => LET json == ParseBody(resp.text)
           IN /\ (resp.status = 200 /\ Get(json, "valid") = JBool(TRUE))
                     => /\ errors' = EmptyBag
                        /\ last'.outcome = Return([valid |-> TRUE])
              /\ resp.status = 422
                     => /\ errors' = normalizeErrors(json)
                        /\ last'.outcome =
                              Return([valid |-> FALSE, errors |-> normalizeErrors(json)])
              /\ resp.status \notin {200, 422}
                     => last'.outcome =
                           Throw(SwellformsError(resp.status, "UNEXPECTED"))]_vars

\* validate returned invalid on a 422 and the bag holds the normalized errors
C6_Witness ==
    /\ last.op = "validate"
    /\ last.outcome = Return([valid |-> FALSE, errors |-> errors])
    /\ ~hasFetchedDefs
    /\ errors = [f \in {"email"} |-> <<"bad", "taken">>]

\* the code submit's status mapping gives a status, stated from the claim
ClaimedSubmitCode(status) ==
    CASE status = 429 -> "RATE_LIMITED"
      [] status = 409 -> "CONFLICT"
      [] status \notin {409, 429} /\ status >= 500 -> "SERVER"
      [] OTHER -> "UNEXPECTED"

\* C7: in the remote pass of submit, 422 stores the normalized bag and returns
\* {ok: false, status: 422, errors}; any 2xx empties the bag and returns
\* {ok: true, status, data}; 429 throws RATE_LIMITED, 409 CONFLICT, any
\* status >= 500 SERVER and every remaining status UNEXPECTED, each carrying
\* the HTTP status.
C7_SubmitRemoteOutcome ==
    [][Ends("submit") => \A resp \in SubmitResponses :
        (resp.kind = "response" /\ SubmitEnd(resp))
        => LET json == ParseBody(resp.text)
           IN /\ resp.status = 422
                     => /\ errors' = normalizeErrors(json)
                        /\ last'.outcome.kind = "return"
                        /\ last'.outcome.value.ok = FALSE
                        /\ last'.outcome.value.status = 422
                        /\ last'.outcome.value.errors = normalizeErrors(json)
              /\ (resp.status >= 200 /\ resp.status <= 299)
                     => /\ errors' = EmptyBag
                        /\ last'.outcome =
                              Return([ok |-> TRUE, status |-> resp.status, data |-> json])
              /\ (resp.status # 422 /\ (resp.status < 200 \/ resp.status > 299))
                     => last'.outcome =
                           Throw(SwellformsError(resp.status, ClaimedSubmitCode(resp.status)))]_vars

\* submit threw SERVER on a 500
C7_Witness ==
    /\ last.op = "submit"
    /\ last.outcome = Throw(SwellformsError(500, "SERVER"))

\* C8: a validate, submit or fetchFields call that ends by throwing leaves the
\* error bag as it was when the call started: neither the step up to the
\* transport call nor the step that throws changes it.
C8_ThrowKeepsErrors ==
    [][(/\ last'.op \in Ops
        /\ last'.outcome.kind \in {"pending", "throw"}
        /\ \/ FetchFieldsStart
           \/ \E only \in OnlyOptions : ValidateStart(only)
           \/ \E overrides \in FieldMaps : SubmitStart(overrides)
           \/ \E resp \in FetchFieldsResponses : FetchFieldsEnd(resp)
           \/ \E resp \in ValidateResponses : ValidateEnd(resp)
           \/ \E resp \in SubmitResponses : SubmitEnd(resp))
       => errors' = errors]_vars

\* a validate call threw UNEXPECTED while the bag of an earlier 422 is kept
C8_Witness ==
    /\ last.op = "validate"
    /\ last.outcome.kind = "throw"
    /\ last.outcome.error = SwellformsError(500, "UNEXPECTED")
    /\ ~hasFetchedDefs
    /\ hasError("email")

\* C9: right after setField(f, v), getField(f) is v and hasError(f) is false,
\* the values and error entries of the other fields are unchanged, no
\* transport call was made and processing and the definitions are unchanged.
C9_SetFieldFrame ==
    [][last'.op = "setField" => \A id \in Fields : \A value \in FieldValues(id) :
        SetField(id, value)
        => /\ getField(id)' = value
           /\ ~hasError(id)'
           /\ \A f \in Fields \ {id} : values'[f] = values[f]
           /\ DOMAIN errors' \ {id} = DOMAIN errors \ {id}
           /\ \A f \in DOMAIN errors \ {id} : errors'[f] = errors[f]
           /\ inflight' = inflight
           /\ processing' = processing
           /\ definitions' = definitions
           /\ hasFetchedDefs' = hasFetchedDefs]_vars

\* setField filled email while name keeps its error: the local pass had
\* reported both fields
C9_Witness ==
    /\ last.op = "setField"
    /\ values["email"] = JStr("a")
    /\ ~hasError("email")
    /\ definitions = Get(BodyDefsObject, "fields")
    /\ errors = RequiredBag({"name"})

\* C10: setFields(map) sets values[k] to map[k] for every key of map, leaves
\* the other values unchanged and leaves the error bag unchanged, also for
\* the fields it assigns.
C10_SetFieldsFrame ==
    [][last'.op = "setFields" => \A map \in FieldMaps :
        SetFields(map)
        => /\ \A k \in DOMAIN map : values'[k] = map[k]
           /\ \A f \in Fields \ DOMAIN map : values'[f] = values[f]
           /\ errors' = errors]_vars

\* setFields filled email and the field still has its 'required' error
C10_Witness ==
    /\ last.op = "setFields"
    /\ values["email"] = JStr("a")
    /\ "email" \in DOMAIN errors
    /\ errors["email"] = <<RequiredMessage>>

\* the definitions a successful fetchFields stores, stated from the claim
ClaimedDefinitions(json) ==
    IF json.t = "array" THEN json
    ELSE IF Get(json, "fields").t = "array" THEN Get(json, "fields")
    ELSE JArr(<<>>)

\* C11: after fetchFields succeeds (2xx), hasFetchedDefs is true and the
\* definitions are a sequence: the body when it is an array, body.fields when
\* that is an array, the empty sequence for every other body; the previous
\* definitions are replaced.
C11_FetchFieldsStoresSequence ==
    [][Ends("fetchFields") => \A resp \in FetchFieldsResponses :
        (resp.kind = "response" /\ ResOk(resp.status) /\ FetchFieldsEnd(resp))
        => /\ hasFetchedDefs'
           /\ definitions'.t = "array"
           /\ definitions' = ClaimedDefinitions(ParseBody(resp.text))]_vars

\* the code fetchFields' status mapping gives a status, stated from the claim
ClaimedFetchFieldsCode(status) ==
    CASE status = 404 -> "NOT_FOUND"
      [] status \in {401, 403} -> "UNAUTHORIZED"
      [] OTHER -> "UNEXPECTED"

\* C12: a non-2xx response makes fetchFields throw with the HTTP status and
\* NOT_FOUND for 404, UNAUTHORIZED for 401 and 403, UNEXPECTED otherwise; a
\* failed fetchFields, TIMEOUT and NETWORK included, leaves definitions and
\* hasFetchedDefs as they were.
C12_FetchFieldsFailure ==
    [][Ends("fetchFields") => \A resp \in FetchFieldsResponses :
        FetchFieldsEnd(resp)
        => /\ (resp.kind = "response" /\ ~ResOk(resp.status))
                 => last'.outcome =
                       Throw(SwellformsError(resp.status,
                                             ClaimedFetchFieldsCode(resp.status)))
           /\ resp.kind = "abort"
                 => last'.outcome = Throw(SwellformsError(0, "TIMEOUT"))
           /\ resp.kind = "reject"
                 => last'.outcome = Throw(SwellformsError(0, "NETWORK"))
           /\ last'.outcome.kind = "throw"
                 => /\ definitions' = definitions
                    /\ hasFetchedDefs' = hasFetchedDefs]_vars

\* fetchFields threw UNAUTHORIZED on a 403 and the definitions of an earlier
\* fetch are still in place
C12_Witness ==
    /\ last.op = "fetchFields"
    /\ last.outcome = Throw(SwellformsError(403, "UNAUTHORIZED"))
    /\ hasFetchedDefs
    /\ definitions = BodyDefsArray

\* a call of `op` has come to its end
Completed(op) ==
    /\ last.op = op
    /\ last.outcome.kind \in {"return", "throw"}

\* C13: every validate, submit and fetchFields call eventually completes:
\* whenever calls of a method are in flight, one of them comes to its end,
\* by the transport's answer or, the timer having fired and the transport
\* honouring the signal, by throwing TIMEOUT.
C13_CallEventuallyCompletes ==
    \A op \in Ops : (inflight[op] > 0) ~> Completed(op)

\* the bag a call that returns on the transport's answer writes, stated from
\* the claim: its own bag on a 422, the empty bag on success
RemoteBag(resp) ==
    IF resp.status = 422 THEN normalizeErrors(ParseBody(resp.text)) ELSE EmptyBag

\* the step ends a call of `op` in its local pass
EndsLocally(op) ==
    /\ last'.op = op
    /\ last'.outcome.kind \in {"return", "throw"}
    /\ inflight' = inflight

\* C14: whichever validate and submit calls are in flight together, a call
\* that comes to its end by a local failure, a 422 or a success replaces the
\* error bag by its own bag, a call that throws leaves the bag as it is, and
\* once no validate or submit call is in flight processing is false: after
\* overlapping calls the bag is the one written by the continuation that ran
\* last among those that wrote.
C14_LastWriteWins ==
    [][/\ Ends("validate") => \A resp \in ValidateResponses :
              ValidateEnd(resp)
              => errors' = IF last'.outcome.kind = "throw" THEN errors
                           ELSE RemoteBag(resp)
       /\ Ends("submit") => \A resp \in SubmitResponses :
              SubmitEnd(resp)
              => errors' = IF last'.outcome.kind = "throw" THEN errors
                           ELSE RemoteBag(resp)
       /\ EndsLocally("validate") => \A only \in OnlyOptions :
              ValidateStart(only)
              => errors' = IF last'.outcome.kind = "throw" THEN errors
                           ELSE RequiredBag(RequiredEmptyAmong(NamedBy(only)))
       /\ EndsLocally("submit") => \A overrides \in FieldMaps :
              SubmitStart(overrides)
              => errors' = IF last'.outcome.kind = "throw" THEN errors
                           ELSE RequiredBag(RequiredEmptyAmong(Fields))
       /\ (Ends("validate") \/ Ends("submit")
              \/ EndsLocally("validate") \/ EndsLocally("submit"))
          => /\ last'.outcome.kind = "throw" => errors' = errors
             /\ ValidateOrSubmitInFlight' = 0 => ~processing']_vars

\* with a validate call still in flight, the continuation of an overlapping
\* submit call ran on a 422 and the bag is the one it wrote
C14_Witness ==
    /\ inflight["validate"] = 1
    /\ last.op = "submit"
    /\ last.outcome.kind = "return"
    /\ last.outcome.value.status = 422
    /\ ~hasFetchedDefs
    /\ errors = [f \in {"name"} |-> <<>>]

\* C15: no mutation the caller performs on a value returned by getFields() or
\* getFormErrors() (setting or deleting a key, appending to or emptying a
\* message list of the returned bag) changes what getFields, getFormErrors,
\* hasError and getFieldError yield; the getters return the current content
\* and change nothing, so two successive calls return equal results.
C15_ReturnedCopiesIndependent ==
    [][/\ (\E k \in Fields : CallerMutates(k))
          => /\ getFields' = getFields
             /\ getFormErrors' = getFormErrors
             /\ \A f \in Fields : /\ hasError(f)' = hasError(f)
                                  /\ getFieldError(f)' = getFieldError(f)
       /\ GetFields
          => /\ last'.outcome = Return(getFields)
             /\ getFields' = getFields
       /\ GetFormErrors
          => /\ last'.outcome = Return(getFormErrors)
             /\ getFormErrors' = getFormErrors]_vars

\* C16: the instance offers validateField(name), and in every state
\* validateField(name) does what validate({only: [name]}) does: the same
\* result, the same transport call and the same resulting instance state.
C16_ValidateFieldIsValidateOnly ==
    [][last'.op = "validateField" => \A name \in Fields :
        ValidateField(name)
        => LET only == Only(<<name>>)
               local == IF hasFetchedDefs
                        THEN validateLocally(only, definitions, values)
                        ELSE [threw |-> FALSE, errors |-> EmptyBag]
           IN /\ values' = values
              /\ IF local.threw
                 THEN /\ last'.outcome = Throw(TypeError)
                      /\ errors' = errors
                      /\ inflight' = inflight
                 ELSE IF DOMAIN local.errors # {}
                 THEN /\ last'.outcome =
                            Return([valid |-> FALSE, errors |-> local.errors])
                      /\ errors' = local.errors
                      /\ inflight' = inflight
                 ELSE /\ last'.outcome = [kind |-> "pending",
                                          body |-> validateBody(values, only)]
                      /\ errors' = errors
                      /\ processing'
                      /\ inflight' = [inflight EXCEPT !["validate"] = @ + 1]]_vars

\* C17: a validate or submit call that meets a recoverable failure, an HTTP
\* 422 or a required field found empty by the local pass, does not throw: it
\* returns valid: false (ok: false for submit) and the errors it returns are
\* the instance's error bag as the call returns.
C17_RecoverableFailuresReturn ==
    [][/\ Ends("validate") => \A resp \in ValidateResponses :
              (resp.kind = "response" /\ resp.status = 422 /\ ValidateEnd(resp))
              => /\ last'.outcome.kind = "return"
                 /\ last'.outcome.value.valid = FALSE
                 /\ last'.outcome.value.errors = getFormErrors'
       /\ Ends("submit") => \A resp \in SubmitResponses :
              (resp.kind = "response" /\ resp.status = 422 /\ SubmitEnd(resp))
              => /\ last'.outcome.kind = "return"
                 /\ last'.outcome.value.ok = FALSE
                 /\ last'.outcome.value.errors = getFormErrors'
       /\ (EndsLocally("validate") /\ hasFetchedDefs) => \A only \in OnlyOptions :
              (RequiredEmptyAmong(NamedBy(only)) # {} /\ ValidateStart(only))
              => /\ last'.outcome.kind = "return"
                 /\ last'.outcome.value.valid = FALSE
                 /\ last'.outcome.value.errors = getFormErrors'
       /\ (EndsLocally("submit") /\ hasFetchedDefs) => \A overrides \in FieldMaps :
              (RequiredEmptyAmong(Fields) # {} /\ SubmitStart(overrides))
              => /\ last'.outcome.kind = "return"
                 /\ last'.outcome.value.ok = FALSE
                 /\ last'.outcome.value.errors = getFormErrors']_vars

\* C18: no step of validate, submit or fetchFields changes the values (a step
\* that changes them is a step of none of the three), however the call goes
\* on and ends; the body submit transmits carries, for
\* every key of the overrides, the override and, for every other field, the
\* stored value, and the overrides are not stored.
C18_NetworkCallsKeepValues ==
    [][last'.op \in Ops
       => /\ getFields' # getFields
             => ~(\/ FetchFieldsStart
                  \/ \E only \in OnlyOptions : ValidateStart(only)
                  \/ \E overrides \in FieldMaps : SubmitStart(overrides)
                  \/ \E resp \in FetchFieldsResponses : FetchFieldsEnd(resp)
                  \/ \E resp \in ValidateResponses : ValidateEnd(resp)
                  \/ \E resp \in SubmitResponses : SubmitEnd(resp))
          /\ (last'.op = "submit" /\ last'.outcome.kind = "pending")
             => \A overrides \in FieldMaps :
                   SubmitStart(overrides)
                   => LET sent == Get(last'.outcome.body, "fields")
                      IN /\ \A k \in DOMAIN overrides :
                               Get(sent, k) = toPlain(overrides[k])
                         /\ \A f \in Fields \ DOMAIN overrides :
                               Get(sent, f) = toPlain(values[f])
                         /\ getFields' = getFields]_vars

\* submit is in flight with the override of email in its body while the
\* stored value of email is another one
C18_Witness ==
    /\ last.op = "submit"
    /\ last.outcome.kind = "pending"
    /\ Get(Get(last.outcome.body, "fields"), "email") = JStr("")
    /\ getField("email") = JStr("a")

\* the values of a fresh instance built from payload.fields, stated from the
\* claim: the given fields, every other field unset
FreshValues(payload) ==
    [f \in Fields |->
        IF payload.fields.given /\ f \in DOMAIN payload.fields.map
        THEN payload.fields.map[f] ELSE JUndef]

\* C19: submitForm(payload) and validateForm(payload) do what submit() and
\* validate({only: payload.only}) do on a fresh instance built from
\* payload.fields: the call takes no local short-circuit and invokes the
\* transport once, with the body of that fresh instance, also when
\* payload.fields is empty or absent, and the helper ends as the method ends
\* on the transport's answer.
C19_OneShotHelpers ==
    [][/\ SubmitForm
          => /\ inflight' = [inflight EXCEPT !["submit"] = 1]
             /\ last'.outcome =
                   [kind |-> "pending",
                    body |-> submitBody(FreshValues(last.payload), [f \in {} |-> JUndef])]
       /\ ValidateForm
          => /\ inflight' = [inflight EXCEPT !["validate"] = 1]
             /\ last'.outcome =
                   [kind |-> "pending",
                    body |-> validateBody(FreshValues(last.payload), last.payload.only)]
       /\ InFlight' <= 1
       /\ InFlight' = 1 => InFlight = 0 /\ last.op = "constructor"
       /\ \A resp \in SubmitResponses :
             SubmitEnd(resp)
             => /\ last'.outcome = submitRemote(EmptyBag, fetchJSON(resp)).outcome
                /\ InFlight' = 0
       /\ \A resp \in ValidateResponses :
             ValidateEnd(resp)
             => /\ last'.outcome = validateRemote(EmptyBag, fetchJSON(resp)).outcome
                /\ InFlight' = 0]_vars

\* a helper called without any field value ended with the transport's 201
C19_Witness ==
    /\ last.op = "submit"
    /\ last.outcome = Return([ok |-> TRUE, status |-> 201, data |-> BodyCreated])
    /\ \A f \in Fields : getField(f) = JUndef
    /\ InFlight = 0

\* the mapping the claim describes.  An object is what JavaScript calls one:
\* a list is an object, null is not.
ClaimedSource(body) ==
    IF Get(body, "errors").t \in {"object", "array"} THEN Get(body, "errors") ELSE body

ClaimedMessages(val) ==
    IF val.t # "array" THEN <<>>
    ELSE LET strings == SelectSeq(val.items, LAMBDA v : v.t = "string")
         IN [i \in 1..Len(strings) |-> strings[i].s]

\* the messages of the entries that normalize to `name`, in encounter order
RECURSIVE ClaimedMessagesFor(_, _)
ClaimedMessagesFor(name, entries) ==
    IF entries = <<>> THEN <<>>
    ELSE (IF FieldIdOf(Head(entries).k) = name
          THEN ClaimedMessages(Head(entries).v) ELSE <<>>)
         \o ClaimedMessagesFor(name, Tail(entries))

ClaimedBag(body) ==
    LET source == ClaimedSource(body)
        entries == ObjectEntries(source)
    IN IF source.t \notin {"object", "array"} THEN EmptyBag
       ELSE [name \in {FieldIdOf(entries[i].k) : i \in 1..Len(entries)} |->
                ClaimedMessagesFor(name, entries)]

\* C20: normalizeErrors never throws and returns, for every input, the
\* mapping built from body.errors when that is an object and from the body
\* otherwise: empty for a source that is no object, each key under its name
\* without a leading 'fields.', no messages for a value that is no list, the
\* strings of a list in order, and the messages of keys with the same
\* normalized name concatenated in encounter order.
C20_NormalizeErrorsTotal ==
    (last.op = "normalizeErrors" /\ last.outcome.kind # "pending")
    => last.outcome = Return(ClaimedBag(last.raw))

\* What C21 says toPlain gives: a primitive as it is, a list element by
\* element, a Date as its ISO string, the inner value of an object whose sole
\* key is `value`, and any other object key by key, in order, without exactly
\* the keys whose converted value is undefined.
RECURSIVE ClaimedPlain(_)
ClaimedPlain(input) ==
    IF input.t = "array"
    THEN JArr([i \in 1..Len(input.items) |-> ClaimedPlain(input.items[i])])
    ELSE IF input.t = "date" THEN JStr(input.iso)
    ELSE IF input.t # "object" THEN input
    ELSE IF {input.entries[i].k : i \in 1..Len(input.entries)} = {"value"}
    THEN ClaimedPlain(Get(input, "value"))
    ELSE LET kept == SelectSeq(input.entries,
                               LAMBDA e : ClaimedPlain(e.v) # JUndef)
         IN JObj([i \in 1..Len(kept) |-> Entry(kept[i].k, ClaimedPlain(kept[i].v))])

\* C21: toPlain returns primitives unchanged, converts a list element by
\* element keeping length and order, a Date to its ISO string, unwraps an
\* object only when its sole key is `value`, and converts any other object key
\* by key in order, omitting exactly the keys whose converted value is
\* undefined.
C21_ToPlainContract ==
    (last.op = "toPlain" /\ last.outcome.kind # "pending")
        => last.outcome = Return(ClaimedPlain(last.input))

\* the step ends a call of `op` by throwing SwellformsError with code UNEXPECTED
ThrowsUnexpected(op) ==
    /\ Ends(op)
    /\ last'.outcome.kind = "throw"
    /\ last'.outcome.error.name = "SwellformsError"
    /\ last'.outcome.error.code = "UNEXPECTED"

\* C22: validate throws SwellformsError with code UNEXPECTED only when the
\* response status is neither 200 nor 422; a 200 response whose body lacks
\* valid: true (valid: false, an empty body, an unparsable body) does not end
\* the call with an UNEXPECTED error.
C22_UnexpectedOnlyOtherStatus ==
    [][ThrowsUnexpected("validate")
       => \A resp \in ValidateResponses :
            ValidateEnd(resp) => /\ resp.kind = "response"
                                 /\ resp.status \notin {200, 422}]_vars

\* the step invokes the transport once, for a call of `op`: one more call of
\* `op` waits for the transport, and no other count changes
InvokesOnce(op) == inflight' = [inflight EXCEPT ![op] = @ + 1]

\* the step takes one answer of the transport to a call of `op` and invokes
\* the transport for nothing
TakesAnswer(op) == inflight' = [inflight EXCEPT ![op] = @ - 1]

\* C23: a validate, submit or fetchFields call invokes the transport at most
\* once, whatever the response or failure: only the start of a call invokes
\* it, once, and the continuation that takes the answer never invokes it
\* again.  validate and submit invoke it exactly once when definitions were
\* never fetched or the local pass found no error, and not at all when the
\* local pass found an error.
C23_TransportOncePerCall ==
    [][/\ \A op \in Ops :
            /\ inflight'[op] <= inflight[op] + 1
            /\ inflight'[op] = inflight[op] + 1
                  => /\ InvokesOnce(op)
                     /\ last'.op = op
                     /\ last'.outcome.kind = "pending"
            /\ (last'.op = op /\ inflight[op] > 0 /\ ~TakesAnswer(op))
                  => ~(CASE op = "validate" ->
                                \E resp \in ValidateResponses : ValidateEnd(resp)
                         [] op = "submit" ->
                                \E resp \in SubmitResponses : SubmitEnd(resp)
                         [] OTHER ->
                                \E resp \in FetchFieldsResponses : FetchFieldsEnd(resp))
       /\ last'.op = "validate"
             => \A only \in OnlyOptions :
                  ValidateStart(only)
                  => IF ~hasFetchedDefs \/ RequiredEmptyAmong(NamedBy(only)) = {}
                     THEN InvokesOnce("validate")
                     ELSE inflight' = inflight
       /\ last'.op = "submit"
             => \A overrides \in FieldMaps :
                  SubmitStart(overrides)
                  => IF ~hasFetchedDefs \/ RequiredEmptyAmong(Fields) = {}
                     THEN InvokesOnce("submit")
                     ELSE inflight' = inflight]_vars

\* the latest operation is a validate that returned valid: false or a submit
\* that returned ok: false
ReturnedInvalid ==
    /\ last.op \in {"validate", "submit"}
    /\ last.outcome.kind = "return"
    /\ IF last.op = "validate" THEN ~last.outcome.value.valid
       ELSE ~last.outcome.value.ok

\* C24: when validate returns valid: false or submit returns ok: false, the
\* instance reports the form as invalid at that moment: isValid() is false,
\* hasFormErrors() is true and hasError(f) is true of at least one field f,
\* for every 422 body.
C24_InvalidResultIsReported ==
    ReturnedInvalid => /\ ~isValid
                       /\ hasFormErrors
                       /\ \E f \in DOMAIN errors : hasError(f)

\* C25: after setField(f, v), hasError(f) stays false until a validate or
\* submit call started after that setField completes.  A call that was in
\* flight when the field was edited, and whose answer is the next thing to
\* happen, does not bring an error for f back, whatever the answer is.
C25_StaleAnswerKeepsEdit ==
    [][(last.op = "setField" /\ (Ends("validate") \/ Ends("submit")))
       => LET f == last.id
          IN ~(f \in DOMAIN errors' /\ Len(errors'[f]) > 0)]_vars
====
